---------------------------- MODULE Spec2Model ----------------------------
(***************************************************************************)
(* A model of glgen.cpp (MetricPanda/glgen v0.4): the registry parser, the *)
(* source scanner, the fixed-capacity token tables and the header emitter  *)
(* of GenerateOpenGLHeader, driven by main.                                *)
(*                                                                         *)
(* Text is modelled byte by byte.  A buffer is a sequence of one-character *)
(* strings; the C terminator is not stored: reading the position just past *)
(* the last character yields NUL.  A char* is a 1-based index into its     *)
(* buffer, a GLString is a record [Chars, Length].  An unsigned int hash   *)
(* is the pair <<high 16 bits, low 16 bits>> so that the 32-bit arithmetic *)
(* of GetStringHash is exact.                                              *)
(***************************************************************************)
EXTENDS Integers, Sequences, FiniteSets, TLC

(***************************************************************************)
(* Characters                                                              *)
(***************************************************************************)
NUL == "NUL"

\* The printable ASCII characters, codes 32 .. 126, in code order (BQ stands for
\* the backquote, code 96, which no modelled text uses).
Ascii ==
  << " ", "!", "\"", "#", "$", "%", "&", "'", "(", ")", "*", "+", ",", "-", ".", "/",
     "0", "1", "2", "3", "4", "5", "6", "7", "8", "9", ":", ";", "<", "=", ">", "?",
     "@", "A", "B", "C", "D", "E", "F", "G", "H", "I", "J", "K", "L", "M", "N", "O",
     "P", "Q", "R", "S", "T", "U", "V", "W", "X", "Y", "Z", "[", "\\", "]", "^", "_",
     "BQ", "a", "b", "c", "d", "e", "f", "g", "h", "i", "j", "k", "l", "m", "n", "o",
     "p", "q", "r", "s", "t", "u", "v", "w", "x", "y", "z", "{", "|", "}", "~" >>

CharSet == {Ascii[i] : i \in 1..Len(Ascii)} \cup {NUL, "\t", "\n", "\r"}

\* The byte value of a character.
Ord ==
  [c \in CharSet |->
     CASE c = NUL  -> 0
       [] c = "\t" -> 9
       [] c = "\n" -> 10
       [] c = "\r" -> 13
       [] OTHER    -> 31 + (CHOOSE i \in 1..Len(Ascii) : Ascii[i] = c)]

\* *(Buffer + At) for a NUL-terminated buffer: the terminator sits at Len + 1.
CharAt(Buffer, At) == IF At >= 1 /\ At <= Len(Buffer) THEN Buffer[At] ELSE NUL

IsWhitespace(c) == c = " " \/ c = "\t"

IsNewline(c) == c = "\r" \/ c = "\n"

IsWhitespaceOrNewline(c) == IsNewline(c) \/ IsWhitespace(c)

\* The tests of IsIdentifier and IsUpperCase on the byte value.
IsLowerByte(b) == b >= 97 /\ b <= 122

IsUpperByte(b) == b >= 65 /\ b <= 90

IsDigitByte(b) == b >= 48 /\ b <= 57

IsIdentifierByte(b) == IsLowerByte(b) \/ IsUpperByte(b) \/ IsDigitByte(b)

IsIdentifier(c) ==
  \/ c = "_" \/ c = "#" \/ c = "*"
  \/ IsIdentifierByte(Ord[c])

IsUpperCase(c) == IsUpperByte(Ord[c])

\* toupper in the C locale, on the byte value.
ToUpperByte(c, b) == IF IsLowerByte(b) THEN Ascii[b - 32 - 31] ELSE c

ToUpper(c) == ToUpperByte(c, Ord[c])

(***************************************************************************)
(* Strings and the 32-bit string hash                                      *)
(***************************************************************************)
GLString(Chars, Length) == [Chars |-> Chars, Length |-> Length]

NoString == GLString(0, 0)

\* The characters a GLString views.
Text(Buffer, String) ==
  [i \in 1..String.Length |-> CharAt(Buffer, String.Chars + i - 1)]

ZeroHash == <<0, 0>>

RECURSIVE XorBits(_, _, _)
XorBits(a, b, n) ==
  IF n = 0 THEN 0
  ELSE (((a % 2) + (b % 2)) % 2) + 2 * XorBits(a \div 2, b \div 2, n - 1)

\* Result *= 0x01000193U; Result ^= byte;   (0x01000193 = 256 * 65536 + 403)
HashStep(Result, byte) ==
  LET hi  == Result[1]
      lo  == Result[2]
      p   == lo * 403
      nhi == ((lo * 256) + (hi * 403) + (p \div 65536)) % 65536
      nlo == p % 65536
  IN  <<nhi, ((nlo \div 256) * 256) + XorBits(nlo % 256, byte, 8)>>

RECURSIVE HashLoop(_, _, _)
HashLoop(Chars, Idx, Result) ==
  IF Idx > Len(Chars) THEN Result
  ELSE HashLoop(Chars, Idx + 1, HashStep(Result, Ord[Chars[Idx]]))

\* GetStringHash over the characters of a string.
GetStringHash(Chars) == HashLoop(Chars, 1, <<0, 1>>)

\* T1->Hash > T2->Hash on unsigned int.
HashGreater(h1, h2) == h1[1] > h2[1] \/ (h1[1] = h2[1] /\ h1[2] > h2[2])

\* UpperCase(Output, Str)
UpperCase(Chars) == [i \in 1..Len(Chars) |-> ToUpper(Chars[i])]

(***************************************************************************)
(* Tokenizers                                                              *)
(***************************************************************************)
\* The loop conditions of ParseToken and ParseArbToken on the character at At.
SkipsBeforeToken(c) == c # NUL /\ (IsWhitespaceOrNewline(c) \/ ~IsIdentifier(c))

SkipsInToken(c) == c # NUL /\ IsIdentifier(c)

RECURSIVE SkipToIdentifier(_, _)
SkipToIdentifier(Buffer, At) ==
  IF SkipsBeforeToken(CharAt(Buffer, At)) THEN SkipToIdentifier(Buffer, At + 1) ELSE At

RECURSIVE SkipIdentifier(_, _)
SkipIdentifier(Buffer, At) ==
  IF SkipsInToken(CharAt(Buffer, At)) THEN SkipIdentifier(Buffer, At + 1) ELSE At

\* The token ParseToken returns for the identifier Start .. End - 1.
TokenBetween(Buffer, Start, Length, End) ==
  [Value |-> GLString(Start, Length),
   Hash  |-> GetStringHash(Text(Buffer, GLString(Start, Length))),
   At    |-> End]

TokenEndingAt(Buffer, Start, End) == TokenBetween(Buffer, Start, End - Start, End)

TokenStartingAt(Buffer, Start) == TokenEndingAt(Buffer, Start, SkipIdentifier(Buffer, Start))

\* ParseToken: the token and the tokenizer position after it.
ParseToken(Buffer, At) == TokenStartingAt(Buffer, SkipToIdentifier(Buffer, At))

\* The token ParseArbToken returns for the identifier Start .. End - 1: an
\* identifier followed by a blank and a star takes both in.
ArbTokenBetween(Start, End, Ptr) ==
  [Value |-> GLString(Start, End - Start + (IF Ptr THEN 2 ELSE 0)),
   At    |-> IF Ptr THEN End + 2 ELSE End]

ArbTokenEndingAt(Buffer, Start, End) ==
  ArbTokenBetween(Start, End,
                  IsWhitespace(CharAt(Buffer, End)) /\ CharAt(Buffer, End + 1) = "*")

ArbTokenStartingAt(Buffer, Start) ==
  ArbTokenEndingAt(Buffer, Start, SkipIdentifier(Buffer, Start))

\* ParseArbToken: as ParseToken without the hash.
ParseArbToken(Buffer, At) == ArbTokenStartingAt(Buffer, SkipToIdentifier(Buffer, At))

RECURSIVE AdvanceToEndOfLine(_, _)
AdvanceToEndOfLine(Buffer, At) ==
  IF CharAt(Buffer, At) # NUL /\ ~IsNewline(CharAt(Buffer, At))
  THEN AdvanceToEndOfLine(Buffer, At + 1)
  ELSE At

\* The loop of StartsWith: 1 unless a compared character differs.
RECURSIVE StartsWithLoop(_, _, _, _)
StartsWithLoop(Buffer, Token, Prefix, Index) ==
  IF Index < Token.Length /\ Index < Len(Prefix)
  THEN IF Prefix[Index + 1] # CharAt(Buffer, Token.Chars + Index)
       THEN FALSE
       ELSE StartsWithLoop(Buffer, Token, Prefix, Index + 1)
  ELSE TRUE

StartsWith(Buffer, Token, Prefix) ==
  Token.Length > 0 /\ StartsWithLoop(Buffer, Token, Prefix, 0)

\* The loop of Equal: the value of Index when the loop is left.
RECURSIVE EqualLoop(_, _, _, _)
EqualLoop(Buffer, Token, Value, Index) ==
  IF Index < Token.Length /\ Index < Len(Value)
  THEN IF Value[Index + 1] # CharAt(Buffer, Token.Chars + Index)
       THEN Index
       ELSE EqualLoop(Buffer, Token, Value, Index + 1)
  ELSE Index

Equal(Buffer, Token, Value) ==
  Token.Length > 0 /\ EqualLoop(Buffer, Token, Value, 0) = Token.Length

(***************************************************************************)
(* The token tables                                                        *)
(***************************************************************************)
\* Bound of the model: TOKEN_HASH_SIZE is 2^13 in the program and 2^HashBits here.
HashBits == 3

\* #define TOKEN_HASH_SIZE 8192, scaled to the model (a power of two).
TOKEN_HASH_SIZE == 2 ^ HashBits

Slots == 0..(TOKEN_HASH_SIZE - 1)

\* A null GLArbToken* / no slot.
NoSlot == 0 - 1

\* Hash & (TOKEN_HASH_SIZE - 1): the low bits of the hash.
HashIndex(Hash) == Hash[2] % TOKEN_HASH_SIZE

\* A zeroed GLArbToken (calloc, and GLArbToken Token = {}).
EmptyArbToken ==
  [Value |-> NoString, Line |-> NoString, ReturnType |-> NoString,
   FunctionName |-> NoString, Parameters |-> NoString, Hash |-> ZeroHash]

\* The probe loop shared by both AddToken overloads:
\*   while(Matching->Hash && Iterations++ < TOKEN_HASH_SIZE) { Index = (Index + 1) & ...; }
\* Hashes is the table's Hash column.  Yields the slot and Iterations on exit.
RECURSIVE ProbeEmpty(_, _, _)
ProbeEmpty(Hashes, Index, Iterations) ==
  IF Hashes[Index] # ZeroHash
  THEN IF Iterations < TOKEN_HASH_SIZE
       THEN ProbeEmpty(Hashes, (Index + 1) % TOKEN_HASH_SIZE, Iterations + 1)
       ELSE [Index |-> Index, Iterations |-> Iterations + 1]
  ELSE [Index |-> Index, Iterations |-> Iterations]

\* GLArbToken* AddToken(GLArbToken* TokenHash, GLArbToken& Token): the table
\* after the call and the slot returned (NoSlot for the null pointer).
AddArbToken(TokenHash, Token) ==
  LET p == ProbeEmpty([i \in Slots |-> TokenHash[i].Hash], HashIndex(Token.Hash), 0)
  IN  IF p.Iterations < TOKEN_HASH_SIZE
      THEN [Table |-> [TokenHash EXCEPT ![p.Index] = Token], Matching |-> p.Index]
      ELSE [Table |-> TokenHash, Matching |-> NoSlot]

\* AddToken without the probe loop: the token is written at its own index.
AddTokenInPlace(TokenHash, Hash) == [TokenHash EXCEPT ![HashIndex(Hash)] = Hash]

\* int AddToken(GLToken* TokenHash, GLToken& Token): the table after the call.
\* A GLToken is modelled by its Hash; its Value is never read once stored.
AddToken(TokenHash, Hash) ==
  LET p == ProbeEmpty(TokenHash, HashIndex(Hash), 0)
  IN  IF p.Iterations < TOKEN_HASH_SIZE
      THEN [TokenHash EXCEPT ![p.Index] = Hash]
      ELSE TokenHash

\* AddCustomToken(TokenHash, Value)
AddCustomToken(TokenHash, Value) == AddToken(TokenHash, GetStringHash(Value))

\* The probe loop of GetToken and Contains: the slot holding Hash, else NoSlot.
RECURSIVE ProbeHash(_, _, _, _)
ProbeHash(Hashes, Hash, Index, Iterations) ==
  IF Hashes[Index] # ZeroHash /\ Iterations < TOKEN_HASH_SIZE
  THEN IF Hashes[Index] = Hash
       THEN Index
       ELSE ProbeHash(Hashes, Hash, (Index + 1) % TOKEN_HASH_SIZE, Iterations + 1)
  ELSE NoSlot

\* GLArbToken* GetToken(GLArbToken* TokenHash, unsigned int Hash)
GetToken(TokenHash, Hash) ==
  IF Hash # ZeroHash
  THEN ProbeHash([i \in Slots |-> TokenHash[i].Hash], Hash, HashIndex(Hash), 0)
  ELSE NoSlot

\* int Contains(GLToken* TokenHash, GLToken& Token)
Contains(TokenHash, Hash) == ProbeHash(TokenHash, Hash, HashIndex(Hash), 0) # NoSlot

\* How many times the body of the loop of GetToken and Contains is entered
\* (the pass that ends in break included).
RECURSIVE ProbeHashSteps(_, _, _, _)
ProbeHashSteps(Hashes, Hash, Index, Iterations) ==
  IF Hashes[Index] # ZeroHash /\ Iterations < TOKEN_HASH_SIZE
  THEN IF Hashes[Index] = Hash
       THEN Iterations + 1
       ELSE ProbeHashSteps(Hashes, Hash, (Index + 1) % TOKEN_HASH_SIZE, Iterations + 1)
  ELSE Iterations

\* qsort(TokenHash, TOKEN_HASH_SIZE, sizeof(GLToken), TokenComparer): descending
\* by Hash.  Entries with equal Hash are equal as modelled, so the result is
\* determined although qsort is not stable.
RECURSIVE InsertDescending(_, _)
InsertDescending(Sorted, Hash) ==
  IF Sorted = <<>> THEN <<Hash>>
  ELSE IF HashGreater(Hash, Head(Sorted))
       THEN <<Hash>> \o Sorted
       ELSE <<Head(Sorted)>> \o InsertDescending(Tail(Sorted), Hash)

RECURSIVE SortFrom(_, _, _)
SortFrom(TokenHash, Index, Sorted) ==
  IF Index = TOKEN_HASH_SIZE THEN Sorted
  ELSE SortFrom(TokenHash, Index + 1, InsertDescending(Sorted, TokenHash[Index]))

SortTokenHash(TokenHash) ==
  LET Sorted == SortFrom(TokenHash, 0, <<>>) IN [i \in Slots |-> Sorted[i + 1]]

(***************************************************************************)
(* String literals of the program                                          *)
(***************************************************************************)
\* "GLAPI" (line 808)
StrGLAPI ==
  <<"G", "L", "A", "P", "I" >>

\* "const" (line 813)
StrConst ==
  <<"c", "o", "n", "s", "t" >>

\* "#define" (line 839)
StrDefine ==
  <<"#", "d", "e", "f", "i", "n", "e" >>

\* "gl" (line 754)
StrGl ==
  <<"g", "l" >>

\* "GL_" (line 762)
StrGL_ ==
  <<"G", "L", "_" >>

\* "GL_MAJOR_VERSION" (line 857)
StrMajor ==
  <<"G", "L", "_", "M", "A", "J", "O", "R", "_", "V", "E", "R", "S", "I", "O", "N" >>

\* "GL_MINOR_VERSION" (line 858)
StrMinor ==
  <<"G", "L", "_", "M", "I", "N", "O", "R", "_", "V", "E", "R", "S", "I", "O", "N" >>

\* "glGetIntegerv" (line 862)
StrGetIntegerv ==
  <<"g", "l", "G", "e", "t", "I", "n", "t", "e", "g", "e", "r", "v" >>

\* ProcPrefix = "GEN_" (line 787)
StrProcPrefix ==
  <<"G", "E", "N", "_" >>

\* The pieces of "typedef %.*s (APIENTRYP PFN%sPROC) %.*s\n" (line 971)
FmtTypedef ==
  <<"t", "y", "p", "e", "d", "e", "f", " " >>

FmtApientryp ==
  <<" ", "(", "A", "P", "I", "E", "N", "T", "R", "Y", "P", " ", "P", "F", "N" >>

FmtProc ==
  <<"P", "R", "O", "C", ")", " " >>

\* The piece of "#define %.*s %s%.*s\n" (line 989)
FmtDefine ==
  <<"#", "d", "e", "f", "i", "n", "e", " " >>

\* The pieces of "PFN%sPROC %s%.*s;\n" (line 1009)
FmtPfn ==
  <<"P", "F", "N" >>

FmtProcSpace ==
  <<"P", "R", "O", "C", " " >>

\* The pieces of "  %s%.*s = (PFN%sPROC)%sOpenGLGetProc(\"%.*s\");\n" (line 1113)
FmtGetProcOpen ==
  <<"O", "p", "e", "n", "G", "L", "G", "e", "t", "P", "r", "o", "c", "(", "\"" >>

FmtAssign ==
  <<" ", "=", " ", "(", "P", "F", "N" >>

FmtProcClose ==
  <<"P", "R", "O", "C", ")" >>

FmtGetProcClose ==
  <<"\"", ")", ";", "\n" >>

(***************************************************************************)
(* The files on disk and the command lines tried                           *)
(***************************************************************************)
\* glcorearb.h: the three seeded symbols and four others.
FileCore ==
  <<"#", "d", "e", "f", "i", "n", "e", " ", "G", "L", "_", "M", "A", "J", "O", "R", "_",
    "V", "E", "R", "S", "I", "O", "N", " ", "0", "x", "8", "2", "1", "B", "\n", "#",
    "d", "e", "f", "i", "n", "e", " ", "G", "L", "_", "M", "I", "N", "O", "R", "_", "V",
    "E", "R", "S", "I", "O", "N", " ", "0", "x", "8", "2", "1", "C", "\n", "G", "L",
    "A", "P", "I", " ", "v", "o", "i", "d", " ", "A", "P", "I", "E", "N", "T", "R", "Y",
    " ", "g", "l", "G", "e", "t", "I", "n", "t", "e", "g", "e", "r", "v", " ", "(", "G",
    "L", "e", "n", "u", "m", " ", "p", "n", "a", "m", "e", ",", " ", "G", "L", "i", "n",
    "t", " ", "*", "d", "a", "t", "a", ")", ";", "\n", "G", "L", "A", "P", "I", " ",
    "v", "o", "i", "d", " ", "A", "P", "I", "E", "N", "T", "R", "Y", " ", "g", "l", "C",
    "l", "e", "a", "r", " ", "(", "G", "L", "b", "i", "t", "f", "i", "e", "l", "d", " ",
    "m", "a", "s", "k", ")", ";", "\n", "#", "d", "e", "f", "i", "n", "e", " ", "G",
    "L", "_", "C", "O", "L", "O", "R", "_", "B", "U", "F", "F", "E", "R", "_", "B", "I",
    "T", " ", "0", "x", "0", "0", "0", "0", "4", "0", "0", "0", "\n", "#", "d", "e",
    "f", "i", "n", "e", " ", "G", "L", "_", "O", "N", "E", " ", "1", "\n", "G", "L",
    "A", "P", "I", " ", "c", "o", "n", "s", "t", " ", "G", "L", "u", "b", "y", "t", "e",
    " ", "*", "A", "P", "I", "E", "N", "T", "R", "Y", " ", "g", "l", "G", "e", "t", "S",
    "t", "r", "i", "n", "g", " ", "(", "G", "L", "e", "n", "u", "m", " ", "n", "a", "m",
    "e", ")", ";", "\n" >>

\* glext.h: glClear again with another parameter list, and two more symbols.
FileExt ==
  <<"G", "L", "A", "P", "I", " ", "v", "o", "i", "d", " ", "A", "P", "I", "E", "N", "T",
    "R", "Y", " ", "g", "l", "C", "l", "e", "a", "r", " ", "(", "G", "L", "e", "n", "u",
    "m", " ", "m", "a", "s", "k", ")", ";", "\n", "#", "d", "e", "f", "i", "n", "e",
    " ", "G", "L", "_", "Z", "E", "R", "O", " ", "0", "\n", "G", "L", "A", "P", "I",
    " ", "v", "o", "i", "d", " ", "A", "P", "I", "E", "N", "T", "R", "Y", " ", "g", "l",
    "F", "l", "u", "s", "h", " ", "(", "v", "o", "i", "d", ")", ";", "\n" >>

\* clear.h: one declaration with its calling-convention token.
FileClear ==
  <<"G", "L", "A", "P", "I", " ", "v", "o", "i", "d", " ", "A", "P", "I", "E", "N", "T",
    "R", "Y", " ", "g", "l", "C", "l", "e", "a", "r", " ", "(", "G", "L", "e", "n", "u",
    "m", " ", "m", "a", "s", "k", ")", ";", "\n" >>

\* noconv.h: the same declaration without the calling-convention token.
FileNoConv ==
  <<"G", "L", "A", "P", "I", " ", "v", "o", "i", "d", " ", "g", "l", "C", "l", "e", "a",
    "r", " ", "(", "G", "L", "e", "n", "u", "m", " ", "m", "a", "s", "k", ")", ";", "\n" >>

\* bare.h: one macro; the file does not end in a newline.
FileBare ==
  <<"#", "d", "e", "f", "i", "n", "e", " ", "G", "L", "_", "Z", "E", "R", "O", " ", "0" >>

\* clear.c
FileClearC ==
  <<"g", "l", "C", "l", "e", "a", "r", "(", "G", "L", "_", "C", "O", "L", "O", "R", "_",
    "B", "U", "F", "F", "E", "R", "_", "B", "I", "T", ")", ";", "\n" >>

\* foo.c: glFoo and GL_BAR are in no registry file; glXSwap is on the ignore list.
FileFooC ==
  <<"g", "l", "F", "o", "o", "(", "1", ")", ";", " ", "g", "l", "X", "S", "w", "a", "p",
    "(", "w", ")", ";", "\n", "g", "l", "F", "o", "o", "(", "G", "L", "_", "O", "N",
    "E", ",", " ", "G", "L", "_", "B", "A", "R", ")", ";", "\n" >>

\* many.c: seven names of the ignore list, then glClear twice.
FileManyC ==
  <<"g", "l", "A", " ", "g", "l", "B", " ", "g", "l", "C", " ", "g", "l", "D", " ", "g",
    "l", "E", " ", "g", "l", "F", " ", "g", "l", "G", " ", "g", "l", "C", "l", "e", "a",
    "r", " ", "g", "l", "C", "l", "e", "a", "r", "\n" >>

\* macros.c: six names of the ignore list, then GL_ONE.
FileMacrosC ==
  <<"G", "L", "_", "A", " ", "G", "L", "_", "B", " ", "G", "L", "_", "C", " ", "G", "L",
    "_", "D", " ", "G", "L", "_", "E", " ", "G", "L", "_", "F", " ", "G", "L", "_", "O",
    "N", "E", "\n" >>

\* edge.c: glX is a leading part of the ignore-list entry glXSwap and glXSwapBuffers
\* goes on after it; GL and g are shorter than the prefixes GL_ and gl; the
\* file ends with g, without a newline.
FileEdgeC ==
  <<"g", "l", "X", " ", "g", "l", "X", "S", "w", "a", "p", "B", "u", "f", "f", "e", "r",
    "s", " ", "G", "L", " ", "g", " ", "A", "b", " ", "g" >>

\* zero.c: one name of the ignore list; GetStringHash of GL_wSxdl5 is 0.
FileZeroC ==
  <<"G", "L", "_", "w", "S", "x", "d", "l", "5", "\n" >>

\* The file system: a name outside the domain cannot be opened; empty.h is a
\* file of size 0.
Files ==
  [name \in {"glcorearb.h", "glext.h", "clear.h", "noconv.h", "bare.h", "empty.h",
             "clear.c", "foo.c", "many.c", "macros.c", "edge.c", "zero.c"} |->
     CASE name = "glcorearb.h" -> FileCore
       [] name = "glext.h"     -> FileExt
       [] name = "clear.h"     -> FileClear
       [] name = "noconv.h"    -> FileNoConv
       [] name = "bare.h"      -> FileBare
       [] name = "empty.h"     -> << >>
       [] name = "clear.c"     -> FileClearC
       [] name = "foo.c"       -> FileFooC
       [] name = "many.c"      -> FileManyC
       [] name = "macros.c"    -> FileMacrosC
       [] name = "edge.c"      -> FileEdgeC
       [] name = "zero.c"      -> FileZeroC]

\* The -gl arguments tried.
HeaderLists ==
  { <<"glcorearb.h">>, <<"glcorearb.h", "glext.h">>, <<"missing.h", "clear.h">>,
    <<"clear.h">>, <<"noconv.h">>, <<"missing.h">>, <<"empty.h">>,
    <<"bare.h", "clear.h", "glext.h">> }

\* Bound of the model: the number of input files on the command line.
MaxInputs == 2

InputNames == {"clear.c", "foo.c", "many.c", "macros.c", "edge.c", "zero.c", "missing.c"}

InputLists == UNION {[1..n -> InputNames] : n \in 1..MaxInputs}

\* Settings->Ignores as -i glXSwap,glA,...,glG,GL_A,...,GL_F,GL_wSxdl5 gives it.
IgnoreNames ==
  <<<<"g", "l", "X", "S", "w", "a", "p">>,
    <<"g", "l", "A">>,
    <<"g", "l", "B">>,
    <<"g", "l", "C">>,
    <<"g", "l", "D">>,
    <<"g", "l", "E">>,
    <<"g", "l", "F">>,
    <<"g", "l", "G">>,
    <<"G", "L", "_", "A">>,
    <<"G", "L", "_", "B">>,
    <<"G", "L", "_", "C">>,
    <<"G", "L", "_", "D">>,
    <<"G", "L", "_", "E">>,
    <<"G", "L", "_", "F">>,
    <<"G", "L", "_", "w", "S", "x", "d", "l", "5">>>>

\* The -i arguments tried: none, or the list above.
IgnoreLists == { << >>, IgnoreNames }

(***************************************************************************)
(* File input                                                              *)
(***************************************************************************)
\* A null char*: a buffer the program obtains is never empty (Size > 0).
NullBuffer == << >>

\* The names of the files on disk.
FileNames == DOMAIN Files

\* GetLastWriteTime of an input file: 0 when stat fails.  Every file on disk
\* was last written at time 1.
GetLastWriteTime(Filename) == IF Filename \in FileNames THEN 1 ELSE 0

\* The loop of main that takes the newest input time.
NewerOf(LastWriteTime, Max) == IF LastWriteTime > Max THEN LastWriteTime ELSE Max

RECURSIVE MaxTimestamp(_, _, _)
MaxTimestamp(Inputs, Index, Max) ==
  IF Index >= Len(Inputs) THEN Max
  ELSE MaxTimestamp(Inputs, Index + 1, NewerOf(GetLastWriteTime(Inputs[Index + 1]), Max))

\* char* ReadEntireFile(char* Filename): null unless the file opens and Size > 0.
ReadEntireFile(Filename) ==
  IF Filename \in FileNames THEN Files[Filename] ELSE NullBuffer

\* One file of ReadMultiFiles with Result holding RunningSize - 1 characters:
\* the new file is read in after the old terminator, then Result[RunningSize-2]
\* and Result[RunningSize-1] (the old last character and the old terminator)
\* are set to '\n'.  Contents is empty for a file that does not open.
AppendContents(Result, Contents) ==
  IF Len(Contents) > 0
  THEN IF Result = NullBuffer
       THEN Contents
       ELSE SubSeq(Result, 1, Len(Result) - 1) \o <<"\n", "\n">> \o Contents
  ELSE Result

AppendFile(Result, Filename) == AppendContents(Result, ReadEntireFile(Filename))

\* char* ReadMultiFiles(char* Start, char* End) over the names of -gl.
RECURSIVE ReadMultiFilesFrom(_, _, _)
ReadMultiFilesFrom(Headers, Index, Result) ==
  IF Index > Len(Headers) THEN Result
  ELSE ReadMultiFilesFrom(Headers, Index + 1, AppendFile(Result, Headers[Index]))

ReadMultiFiles(Headers) == ReadMultiFilesFrom(Headers, 1, NullBuffer)

(***************************************************************************)
(* The registry parser: one iteration of the loop of lines 805-853         *)
(***************************************************************************)
\* What an iteration does before any table write: the tokenizer position it
\* leaves, whether it adds a token, and the GLArbToken it builds (Token as
\* handed to AddToken, Filled as it stands after the stores through the
\* returned pointer).
NoAdd(At) == [Adds |-> FALSE, At |-> At]

HashedToken(Value, Hash) == [EmptyArbToken EXCEPT !.Value = Value, !.Hash = Hash]

\* A variant of the step below that adds the declaration whether or not the
\* table holds its hash.
ArbFunctionAddAgain(TokenHash, Start, ReturnType, ReturnTypeLength, Name, Hash, Eol) ==
  [Adds   |-> TRUE,
   At     |-> Eol,
   Token  |-> HashedToken(Name.Value, Hash),
   Filled |-> [HashedToken(Name.Value, Hash) EXCEPT
                 !.FunctionName = GLString(Name.Value.Chars, Name.At - Name.Value.Chars),
                 !.ReturnType   = GLString(ReturnType, ReturnTypeLength),
                 !.Parameters   = GLString(Name.At, Eol - Name.At),
                 !.Line         = GLString(Start, Eol - Start)]]

\* Lines 820-836, with Name the token of line 818 and Eol where
\* AdvanceToEndOfLine stops.
ArbFunctionAdd(TokenHash, Start, ReturnType, ReturnTypeLength, Name, Hash, Eol) ==
  IF GetToken(TokenHash, Hash) = NoSlot
  THEN [Adds   |-> TRUE,
        At     |-> Eol,
        Token  |-> HashedToken(Name.Value, Hash),
        Filled |-> [HashedToken(Name.Value, Hash) EXCEPT
                      !.FunctionName = GLString(Name.Value.Chars, Name.At - Name.Value.Chars),
                      !.ReturnType   = GLString(ReturnType, ReturnTypeLength),
                      !.Parameters   = GLString(Name.At, Eol - Name.At),
                      !.Line         = GLString(Start, Eol - Start)]]
  ELSE NoAdd(Name.At)

\* Lines 816-819, with At the tokenizer position after the return type.
ArbFunctionName(Buffer, TokenHash, Start, ReturnType, At, Name) ==
  ArbFunctionAdd(TokenHash, Start, ReturnType, At - ReturnType, Name,
                 GetStringHash(Text(Buffer, Name.Value)),
                 AdvanceToEndOfLine(Buffer, Name.At))

\* A variant of the step below that takes the token after the return type for
\* the name, skipping nothing.
ArbFunctionAfterTypeKeep(Buffer, TokenHash, Start, ReturnType, At) ==
  ArbFunctionName(Buffer, TokenHash, Start, ReturnType, At, ParseArbToken(Buffer, At))

\* Lines 816-818: one token is parsed and dropped, the next is the name.
ArbFunctionAfterType(Buffer, TokenHash, Start, ReturnType, At) ==
  ArbFunctionName(Buffer, TokenHash, Start, ReturnType, At,
                  ParseArbToken(Buffer, ParseArbToken(Buffer, At).At))

\* Lines 810-815, with Type the token of line 812.
ArbFunction(Buffer, TokenHash, Start, ReturnType, Type) ==
  ArbFunctionAfterType(Buffer, TokenHash, Start, ReturnType,
                       IF Equal(Buffer, Type.Value, StrConst)
                       THEN ParseArbToken(Buffer, Type.At).At
                       ELSE Type.At)

\* Lines 843-850, with Name the token of line 842.
ArbDefineAdd(TokenHash, Start, Name, Hash, Eol) ==
  IF GetToken(TokenHash, Hash) = NoSlot
  THEN [Adds   |-> TRUE,
        At     |-> Eol,
        Token  |-> HashedToken(Name.Value, Hash),
        Filled |-> [HashedToken(Name.Value, Hash) EXCEPT
                      !.Line = GLString(Start, Eol - Start)]]
  ELSE NoAdd(Name.At)

\* Lines 841-843.
ArbDefine(Buffer, TokenHash, Start, Name) ==
  ArbDefineAdd(TokenHash, Start, Name, GetStringHash(Text(Buffer, Name.Value)),
               AdvanceToEndOfLine(Buffer, Name.At))

\* Lines 808 and 839, with First the token of line 807.
ArbDispatch(Buffer, TokenHash, First) ==
  IF Equal(Buffer, First.Value, StrGLAPI)
  THEN ArbFunction(Buffer, TokenHash, First.Value.Chars, First.At,
                   ParseArbToken(Buffer, First.At))
  ELSE IF StartsWith(Buffer, First.Value, StrDefine)
  THEN ArbDefine(Buffer, TokenHash, First.Value.Chars, ParseArbToken(Buffer, First.At))
  ELSE NoAdd(First.At)

ArbIteration(Buffer, At, TokenHash) ==
  ArbDispatch(Buffer, TokenHash, ParseArbToken(Buffer, At))

(***************************************************************************)
(* The source scanner: the pieces of ParseFile                             *)
(***************************************************************************)
\* The loop over Settings->Ignores of IsKnownOrIgnoredToken.
RECURSIVE IsIgnored(_, _, _, _)
IsIgnored(Buffer, Token, Ignores, IgnoredIndex) ==
  IF IgnoredIndex >= Len(Ignores) THEN FALSE
  ELSE IF Equal(Buffer, Token.Value, Ignores[IgnoredIndex + 1]) THEN TRUE
       ELSE IsIgnored(Buffer, Token, Ignores, IgnoredIndex + 1)

\* A variant of the function below that does not consult the ignore list.
IsKnownToken(ArbHash, Buffer, Token, Ignores) == GetToken(ArbHash, Token.Hash) # NoSlot

\* int IsKnownOrIgnoredToken(ArbHash, Token, Settings): Found; the warning is
\* printed exactly when it is 0.
IsKnownOrIgnoredToken(ArbHash, Buffer, Token, Ignores) ==
  IF GetToken(ArbHash, Token.Hash) # NoSlot THEN TRUE
  ELSE IsIgnored(Buffer, Token, Ignores, 0)

\* A variant of the branch below that records a rejected candidate too, so
\* that it is warned about once.
RecordCandidateOnce(Set, ArbHash, Buffer, Token, Ignores) ==
  IF ~Contains(Set.Hash, Token.Hash)
  THEN [Hash  |-> AddToken(Set.Hash, Token.Hash),
        Count |-> Set.Count + 1,
        Warn  |-> IF IsKnownOrIgnoredToken(ArbHash, Buffer, Token, Ignores)
                  THEN Set.Warn
                  ELSE Append(Set.Warn, Text(Buffer, Token.Value))]
  ELSE Set

\* The body of one candidate branch of ParseFile (lines 756-760, 764-768) on
\* a result set: the set, its count and the warnings after it.
RecordCandidate(Set, ArbHash, Buffer, Token, Ignores) ==
  IF ~Contains(Set.Hash, Token.Hash)
  THEN IF IsKnownOrIgnoredToken(ArbHash, Buffer, Token, Ignores)
       THEN [Hash  |-> AddToken(Set.Hash, Token.Hash),
             Count |-> Set.Count + 1,
             Warn  |-> Set.Warn]
       ELSE [Set EXCEPT !.Warn = Append(Set.Warn, Text(Buffer, Token.Value))]
  ELSE Set

\* Whether Token.Value.Chars[2] lies past the terminator of the file buffer.
ThirdCharOutOfBounds(Buffer, Token) == Token.Value.Chars + 2 > Len(Buffer) + 1

(***************************************************************************)
(* The header emitter                                                      *)
(*                                                                         *)
(* The output file is a sequence of items.  A fixed block of text is one   *)
(* item named by kind (with the prefix or the timestamp printed into it);  *)
(* a line built from registry text is an item holding its characters.  sym *)
(* is an annotation, not file content: the name of the registry symbol the *)
(* line was written for.                                                   *)
(***************************************************************************)
Item(kind, text, arg, sym) == [kind |-> kind, text |-> text, arg |-> arg, sym |-> sym]

Block(kind, text, arg) == Item(kind, text, arg, << >>)

\* Lines 881-886: the include guard and "// @GENERATED: %llu".
GuardBlock(WriteTimestamp) == Block("guard", << >>, WriteTimestamp)

\* Lines 888-909: the version record and the forward declaration of Init.
VersionBlock(Prefix) == Block("version", Prefix, 0)

\* Lines 911-943: APIENTRY, APIENTRYP, GLAPI and the baseline typedefs.
BaselineBlock == Block("baseline", << >>, 0)

\* Spacer = "\n\n"
SpacerBlock == Block("spacer", << >>, 0)

\* Line 959: the GLDEBUGPROC typedef.
DebugProcBlock == Block("debugproc", << >>, 0)

\* Lines 1016-1098: the three platform loader blocks.
LoaderBlock(Prefix) == Block("loader", Prefix, 0)

\* Lines 1099-1103: the head of the initialization function.
InitOpenBlock(Prefix) == Block("init_open", Prefix, 0)

\* Lines 1121-1133: unload, the version query and the closing #endif.
InitCloseBlock(Prefix) == Block("init_close", Prefix, 0)

\* The entries the loop "for (Index = 0; Index < Count; ++Index)" reads:
\* TokenHash + Index lies past the array from Index = TOKEN_HASH_SIZE on,
\* where the read yields whatever the memory holds (Beyond).
Visited(TokenHash, Count, Beyond) ==
  [i \in 1..Count |-> IF i - 1 < TOKEN_HASH_SIZE THEN TokenHash[i - 1] ELSE Beyond]

\* The registry entries the visited hashes resolve to, in order: GetToken per
\* entry, the entries it does not find skipped.
Resolved(ArbHash, Hashes) ==
  LET Found == [i \in 1..Len(Hashes) |-> GetToken(ArbHash, Hashes[i])]
      Kept  == SelectSeq(Found, LAMBDA slot : slot # NoSlot)
  IN  [i \in 1..Len(Kept) |-> ArbHash[Kept[i]]]

\* fwrite(ArbToken->Line.Chars, ArbToken->Line.Length + 1, 1, Output)
MacroItem(ArbData, ArbToken) ==
  Item("macro",
       Text(ArbData, GLString(ArbToken.Line.Chars, ArbToken.Line.Length + 1)),
       0, Text(ArbData, ArbToken.Value))

\* "typedef %.*s (APIENTRYP PFN%sPROC) %.*s\n"
TypedefItem(ArbData, ArbToken) ==
  Item("typedef",
       FmtTypedef \o Text(ArbData, ArbToken.ReturnType) \o FmtApientryp
         \o UpperCase(Text(ArbData, ArbToken.FunctionName)) \o FmtProc
         \o Text(ArbData, ArbToken.Parameters) \o <<"\n">>,
       0, Text(ArbData, ArbToken.Value))

\* "#define %.*s %s%.*s\n"
RedefineItem(ArbData, ArbToken) ==
  Item("redefine",
       FmtDefine \o Text(ArbData, ArbToken.FunctionName) \o <<" ">> \o StrProcPrefix
         \o Text(ArbData, ArbToken.FunctionName) \o <<"\n">>,
       0, Text(ArbData, ArbToken.Value))

\* "PFN%sPROC %s%.*s;\n"
GlobalItem(ArbData, ArbToken) ==
  Item("global",
       FmtPfn \o UpperCase(Text(ArbData, ArbToken.FunctionName)) \o FmtProcSpace
         \o StrProcPrefix \o Text(ArbData, ArbToken.FunctionName) \o <<";", "\n">>,
       0, Text(ArbData, ArbToken.Value))

\* "  %s%.*s = (PFN%sPROC)%sOpenGLGetProc(\"%.*s\");\n"
LoadItem(ArbData, ArbToken, Prefix) ==
  Item("load",
       <<" ", " ">> \o StrProcPrefix \o Text(ArbData, ArbToken.FunctionName) \o FmtAssign
         \o UpperCase(Text(ArbData, ArbToken.FunctionName)) \o FmtProcClose \o Prefix
         \o FmtGetProcOpen \o Text(ArbData, ArbToken.FunctionName) \o FmtGetProcClose,
       0, Text(ArbData, ArbToken.Value))

\* Lines 874-943: what is written before the macro lines.
Preamble(Settings) ==
  <<GuardBlock(Settings.WriteTimestamp)>>
    \o (IF Settings.Boilerplate THEN <<VersionBlock(Settings.Prefix)>> ELSE << >>)
    \o <<BaselineBlock>>

\* Lines 946-960: the macro lines, the spacer and the GLDEBUGPROC typedef.
DefineLines(ArbData, ArbHash, Hashes) ==
  LET Tokens == Resolved(ArbHash, Hashes)
  IN  [i \in 1..Len(Tokens) |-> MacroItem(ArbData, Tokens[i])]
        \o <<SpacerBlock, DebugProcBlock>>

\* Lines 962-978: the function-pointer typedefs.
TypedefLines(ArbData, ArbHash, Hashes) ==
  LET Tokens == Resolved(ArbHash, Hashes)
  IN  [i \in 1..Len(Tokens) |-> TypedefItem(ArbData, Tokens[i])]

\* Lines 981-1133: the boilerplate.
Boilerplate(ArbData, ArbHash, Hashes, Prefix) ==
  LET Tokens == Resolved(ArbHash, Hashes)
  IN  <<SpacerBlock>>
        \o [i \in 1..Len(Tokens) |-> RedefineItem(ArbData, Tokens[i])]
        \o <<SpacerBlock>>
        \o [i \in 1..Len(Tokens) |-> GlobalItem(ArbData, Tokens[i])]
        \o <<LoaderBlock(Prefix), InitOpenBlock(Prefix)>>
        \o [i \in 1..Len(Tokens) |-> LoadItem(ArbData, Tokens[i], Prefix)]
        \o <<InitCloseBlock(Prefix)>>

(***************************************************************************)
(* The program state                                                       *)
(***************************************************************************)
VARIABLES
  pc,              \* where the process is: "shell" before main is entered
  rerun,           \* whether this is the second invocation on the same disk
  first,           \* how the first invocation ended (kept for comparison)
  now,             \* the clock
  outFile,         \* the output file on disk: [exists, mtime, content]
  Settings,        \* GLSettings as ParseCommandLine and main leave them
  Result,          \* main's Result
  ArbData,         \* the registry buffer
  Output,          \* whether the FILE* Output is non-null
  Success,         \* GenerateOpenGLHeader's Success
  Tokenizer,       \* Tokenizer.At of the loop being run
  ArbHash, ArbTokenCount,
  FunctionsHash, FunctionCount,
  DefinesHash, DefinesCount,
  Index,           \* the input file being parsed
  Data,            \* ParseFile's buffer
  FunctionsBeyond, \* what reads past the end of FunctionsHash yield in this run
  Warnings,        \* the tokens named by "WARNING: Token not found in header"
  Inserted         \* history: the hashes handed to AddToken when the tables are
                   \* exercised on their own (TableSpec), in order

vars ==
  <<pc, rerun, first, now, outFile, Settings, Result, ArbData, Output, Success,
    Tokenizer, ArbHash, ArbTokenCount, FunctionsHash, FunctionCount, DefinesHash,
    DefinesCount, Index, Data, FunctionsBeyond, Warnings, Inserted>>

\* The variables of one call of GenerateOpenGLHeader.
run ==
  <<ArbData, Output, Success, Tokenizer, ArbHash, ArbTokenCount, FunctionsHash,
    FunctionCount, DefinesHash, DefinesCount, Index, Data, FunctionsBeyond, Warnings>>

tables == <<ArbHash, ArbTokenCount, FunctionsHash, FunctionCount, DefinesHash, DefinesCount>>

\* GLSettings Settings = {}
NoSettings ==
  [Headers |-> << >>, Inputs |-> << >>, Ignores |-> << >>, Prefix |-> << >>,
   Boilerplate |-> FALSE, WriteTimestamp |-> 0]

\* calloc(sizeof(GLToken), TOKEN_HASH_SIZE)
EmptyTokenHash == [i \in Slots |-> ZeroHash]

\* calloc(sizeof(GLArbToken), TOKEN_HASH_SIZE)
EmptyArbHash == [i \in Slots |-> EmptyArbToken]

NoRun == [pc |-> "shell", Settings |-> NoSettings, Result |-> 0, content |-> << >>,
          Warnings |-> << >>, Exhausted |-> FALSE]

\* The run variables before GenerateOpenGLHeader is entered.
RunReset ==
  /\ ArbData' = NullBuffer
  /\ Output' = FALSE
  /\ Success' = 0 - 1
  /\ Tokenizer' = 0
  /\ ArbHash' = EmptyArbHash
  /\ ArbTokenCount' = 0
  /\ FunctionsHash' = EmptyTokenHash
  /\ FunctionCount' = 0
  /\ DefinesHash' = EmptyTokenHash
  /\ DefinesCount' = 0
  /\ Index' = 0
  /\ Data' = NullBuffer
  /\ FunctionsBeyond' = ZeroHash
  /\ Warnings' = << >>

Init ==
  /\ pc = "shell"
  /\ rerun = FALSE
  /\ first = NoRun
  /\ now = 1
  /\ outFile = [exists |-> FALSE, mtime |-> 0, content |-> << >>]
  /\ Settings = NoSettings
  /\ Result = 0
  /\ ArbData = NullBuffer
  /\ Output = FALSE
  /\ Success = 0 - 1
  /\ Tokenizer = 0
  /\ ArbHash = EmptyArbHash
  /\ ArbTokenCount = 0
  /\ FunctionsHash = EmptyTokenHash
  /\ FunctionCount = 0
  /\ DefinesHash = EmptyTokenHash
  /\ DefinesCount = 0
  /\ Index = 0
  /\ Data = NullBuffer
  /\ FunctionsBeyond = ZeroHash
  /\ Warnings = << >>
  /\ Inserted = << >>

(***************************************************************************)
(* main                                                                    *)
(***************************************************************************)
\* The prefixes tried: none (Settings.Prefix null).
Prefixes == { << >> }

\* Whether main calls GenerateOpenGLHeader (line 103).
MustGenerate(ForceGenerate, Max, WriteTimestamp) == ForceGenerate \/ Max > WriteTimestamp

\* main, lines 89-106, with the settings ParseCommandLine produced.
Invoke(settings, ForceGenerate) ==
  LET WriteTimestamp == IF outFile.exists THEN outFile.mtime ELSE 0
      Max            == MaxTimestamp(settings.Inputs, 0, 0)
  IN  /\ Settings' = [settings EXCEPT !.WriteTimestamp = WriteTimestamp]
      /\ Result' = 0
      /\ pc' = IF MustGenerate(ForceGenerate, Max, WriteTimestamp)
               THEN "generate" ELSE "skipped"
      /\ RunReset

\* The first invocation, on a disk without the output file.
Main ==
  /\ pc = "shell"
  /\ UNCHANGED Inserted
  /\ \E h \in HeaderLists, in \in InputLists, ig \in IgnoreLists, p \in Prefixes,
        b \in BOOLEAN, force \in BOOLEAN :
       Invoke([Headers |-> h, Inputs |-> in, Ignores |-> ig, Prefix |-> p,
               Boilerplate |-> b, WriteTimestamp |-> 0], force)
  /\ UNCHANGED <<rerun, first, now, outFile>>

\* Whether an insert has met a full table in this run: the counts are raised
\* whether or not AddToken stored the token.
Exhausted ==
  \/ ArbTokenCount > TOKEN_HASH_SIZE
  \/ FunctionCount > TOKEN_HASH_SIZE
  \/ DefinesCount > TOKEN_HASH_SIZE

Reverse(seq) == [i \in 1..Len(seq) |-> seq[Len(seq) + 1 - i]]

\* A second invocation, later, on the disk the first one left: the same
\* registry, ignore list and prefix; the input files in the same or the
\* opposite order; boilerplate on or off.
MainAgain ==
  /\ pc \in {"exited", "skipped", "crashed", "aborted"}
  /\ UNCHANGED Inserted
  /\ ~rerun
  /\ rerun' = TRUE
  /\ first' = [pc |-> pc, Settings |-> Settings, Result |-> Result,
               content |-> outFile.content, Warnings |-> Warnings,
               Exhausted |-> Exhausted]
  /\ now' = now + 1
  /\ \E in \in {Settings.Inputs, Reverse(Settings.Inputs)}, b \in BOOLEAN,
        force \in BOOLEAN :
       Invoke([Settings EXCEPT !.Inputs = in, !.Boilerplate = b], force)
  /\ UNCHANGED outFile

(***************************************************************************)
(* GenerateOpenGLHeader                                                    *)
(***************************************************************************)
\* Lines 785-801: read the registry, open the output, allocate the tables.
\* fopen(Settings->Output, "w") may fail; when it succeeds the file is
\* created or truncated.
OpenFiles ==
  /\ pc = "generate"
  /\ UNCHANGED Inserted
  /\ ArbData' = ReadMultiFiles(Settings.Headers)
  /\ \E opened \in BOOLEAN :
       /\ Output' = opened
       /\ outFile' = IF opened
                     THEN [exists |-> TRUE, mtime |-> now, content |-> << >>]
                     ELSE outFile
       /\ pc' = IF Len(Settings.Inputs) <= 0 THEN "close"
                ELSE IF opened /\ ArbData' # NullBuffer THEN "registry"
                ELSE "close"
  /\ Success' = 0 - 1
  /\ Tokenizer' = 1
  /\ UNCHANGED <<rerun, first, now, Settings, Result, tables, Index, Data,
                 FunctionsBeyond, Warnings>>

\* The registry loop, lines 805-853, from position At on: the ways it can
\* end.  When AddToken returns the null pointer the stores through it are
\* undefined: the process is killed, or, the build having taken the pointer
\* for non-null and dropped the test of Iterations, the token lands in the
\* slot the probe ended on, which is the one it started from.
RECURSIVE RegistryLoop(_, _, _, _)

RegistryAdd(Buffer, At, TokenHash, Count, it, added) ==
  IF added.Matching # NoSlot
  THEN RegistryLoop(Buffer, it.At, [added.Table EXCEPT ![added.Matching] = it.Filled],
                    Count + 1)
  ELSE {[pc |-> "crashed", At |-> At, ArbHash |-> TokenHash, ArbTokenCount |-> Count + 1]}
       \cup RegistryLoop(Buffer, it.At,
                         [TokenHash EXCEPT ![HashIndex(it.Token.Hash)] = it.Filled],
                         Count + 1)

RegistryStep(Buffer, At, TokenHash, Count, it) ==
  IF ~it.Adds
  THEN RegistryLoop(Buffer, it.At, TokenHash, Count)
  ELSE RegistryAdd(Buffer, At, TokenHash, Count, it, AddArbToken(TokenHash, it.Token))

RegistryLoop(Buffer, At, TokenHash, Count) ==
  IF CharAt(Buffer, At) = NUL
  THEN {[pc |-> "seed", At |-> At, ArbHash |-> TokenHash, ArbTokenCount |-> Count]}
  ELSE RegistryStep(Buffer, At, TokenHash, Count, ArbIteration(Buffer, At, TokenHash))

ParseRegistry ==
  /\ pc = "registry"
  /\ UNCHANGED Inserted
  /\ \E end \in RegistryLoop(ArbData, Tokenizer, ArbHash, ArbTokenCount) :
       /\ pc' = end.pc
       /\ Tokenizer' = end.At
       /\ ArbHash' = end.ArbHash
       /\ ArbTokenCount' = end.ArbTokenCount
  /\ UNCHANGED <<rerun, first, now, outFile, Settings, Result, ArbData, Output,
                 Success, FunctionsHash, FunctionCount, DefinesHash, DefinesCount,
                 Index, Data, FunctionsBeyond, Warnings>>

\* A variant of the step below that seeds nothing.
SeedTokensNone ==
  /\ pc = "seed"
  /\ UNCHANGED Inserted
  /\ Index' = 0
  /\ pc' = "inputs"
  /\ UNCHANGED <<rerun, first, now, outFile, Settings, Result, ArbData, Output,
                 Success, Tokenizer, tables, Data, FunctionsBeyond, Warnings>>

\* Lines 855-863, once the registry loop has met the terminator.
SeedTokens ==
  /\ pc = "seed"
  /\ UNCHANGED Inserted
  /\ DefinesCount' = 2
  /\ DefinesHash' = AddCustomToken(AddCustomToken(DefinesHash, StrMajor), StrMinor)
  /\ FunctionCount' = 1
  /\ FunctionsHash' = AddCustomToken(FunctionsHash, StrGetIntegerv)
  /\ Index' = 0
  /\ pc' = "inputs"
  /\ UNCHANGED <<rerun, first, now, outFile, Settings, Result, ArbData, Output,
                 Success, Tokenizer, ArbHash, ArbTokenCount, Data, FunctionsBeyond,
                 Warnings>>

\* ParseFile, lines 745-750 and 774-778, for Settings->Inputs[Index].
OpenInput ==
  /\ pc = "inputs"
  /\ UNCHANGED Inserted
  /\ Index < Len(Settings.Inputs)
  /\ Data' = ReadEntireFile(Settings.Inputs[Index + 1])
  /\ IF Data' # NullBuffer
     THEN /\ Tokenizer' = 1
          /\ pc' = "scan"
          /\ Index' = Index
     ELSE /\ Index' = Index + 1
          /\ UNCHANGED <<Tokenizer, pc>>
  /\ UNCHANGED <<rerun, first, now, outFile, Settings, Result, ArbData, Output,
                 Success, tables, FunctionsBeyond, Warnings>>

\* The values the read of Token.Value.Chars[2] (line 754) can yield as the
\* operand of IsUpperCase.  Chars[2] of a one-character token that ends the
\* file lies past the buffer: the read yields either kind of character.
ThirdIsUpperCase(Buffer, Token) ==
  IF StartsWith(Buffer, Token.Value, StrGl) /\ ThirdCharOutOfBounds(Buffer, Token)
  THEN BOOLEAN
  ELSE {IsUpperCase(CharAt(Buffer, Token.Value.Chars + 2))}

\* Lines 754-761.
ScanFunction(Set, Buffer, Token, third) ==
  IF StartsWith(Buffer, Token.Value, StrGl) /\ third
  THEN RecordCandidate(Set, ArbHash, Buffer, Token, Settings.Ignores)
  ELSE Set

\* Lines 762-769.
ScanDefine(Set, Buffer, Token) ==
  IF StartsWith(Buffer, Token.Value, StrGL_)
  THEN RecordCandidate(Set, ArbHash, Buffer, Token, Settings.Ignores)
  ELSE Set

ScanStore(Functions, Defines, At) ==
  /\ FunctionsHash' = Functions.Hash
  /\ FunctionCount' = Functions.Count
  /\ DefinesHash' = Defines.Hash
  /\ DefinesCount' = Defines.Count
  /\ Warnings' = Defines.Warn
  /\ Tokenizer' = At

ScanDefines(Functions, Token) ==
  ScanStore(Functions,
            ScanDefine([Hash |-> DefinesHash, Count |-> DefinesCount,
                        Warn |-> Functions.Warn], Data, Token),
            Token.At)

ScanFunctions(Token) ==
  \E third \in ThirdIsUpperCase(Data, Token) :
    ScanDefines(ScanFunction([Hash |-> FunctionsHash, Count |-> FunctionCount,
                              Warn |-> Warnings], Data, Token, third),
                Token)

\* One iteration of the loop of ParseFile, lines 751-770.
ScanToken ==
  /\ pc = "scan"
  /\ UNCHANGED Inserted
  /\ CharAt(Data, Tokenizer) # NUL
  /\ ScanFunctions(ParseToken(Data, Tokenizer))
  /\ UNCHANGED <<pc, rerun, first, now, outFile, Settings, Result, ArbData, Output,
                 Success, ArbHash, ArbTokenCount, Index, Data, FunctionsBeyond>>

\* Lines 771-772 and the step of the loop of line 865.
CloseInput ==
  /\ pc = "scan"
  /\ UNCHANGED Inserted
  /\ CharAt(Data, Tokenizer) = NUL
  /\ Data' = NullBuffer
  /\ Index' = Index + 1
  /\ pc' = "inputs"
  /\ UNCHANGED <<rerun, first, now, outFile, Settings, Result, ArbData, Output,
                 Success, Tokenizer, tables, FunctionsBeyond, Warnings>>

\* Lines 871-872.
SortTokens ==
  /\ pc = "inputs"
  /\ UNCHANGED Inserted
  /\ Index >= Len(Settings.Inputs)
  /\ FunctionsHash' = SortTokenHash(FunctionsHash)
  /\ DefinesHash' = SortTokenHash(DefinesHash)
  /\ pc' = "preamble"
  /\ UNCHANGED <<rerun, first, now, outFile, Settings, Result, ArbData, Output,
                 Success, Tokenizer, ArbHash, ArbTokenCount, FunctionCount,
                 DefinesCount, Index, Data, FunctionsBeyond, Warnings>>

Write(items) == outFile' = [outFile EXCEPT !.content = @ \o items]

\* Lines 874-943.
EmitPreamble ==
  /\ pc = "preamble"
  /\ UNCHANGED Inserted
  /\ Write(Preamble(Settings))
  /\ pc' = "defines"
  /\ UNCHANGED <<rerun, first, now, Settings, Result, run>>

\* What a read past the end of a result set may yield: zero, a value no
\* registry entry has, or the hash of a registry entry (that of the first
\* populated slot stands for all of them).
FirstPopulated(Table) ==
  {i \in Slots : Table[i].Hash # ZeroHash /\ \A j \in Slots : j < i => Table[j].Hash = ZeroHash}

Garbage(Table) == {ZeroHash, <<0, 1>>} \cup {Table[i].Hash : i \in FirstPopulated(Table)}

\* Lines 946-960.  assert(Token->Hash) aborts on an entry with hash 0.  With
\* DefinesCount above TOKEN_HASH_SIZE the loop reads past DefinesHash: the
\* process is killed or the reads yield some value.
EmitDefines ==
  /\ pc = "defines"
  /\ UNCHANGED Inserted
  /\ \/ /\ DefinesCount > TOKEN_HASH_SIZE
        /\ pc' = "crashed"
        /\ UNCHANGED outFile
     \/ \E beyond \in IF DefinesCount > TOKEN_HASH_SIZE THEN Garbage(ArbHash)
                      ELSE {ZeroHash} :
          LET Hashes == Visited(DefinesHash, DefinesCount, beyond)
          IN  IF \E i \in 1..Len(Hashes) : Hashes[i] = ZeroHash
              THEN /\ pc' = "aborted"
                   /\ UNCHANGED outFile
              ELSE /\ Write(DefineLines(ArbData, ArbHash, Hashes))
                   /\ pc' = "typedefs"
  /\ UNCHANGED <<rerun, first, now, Settings, Result, run>>

\* Lines 962-978.  With FunctionCount above TOKEN_HASH_SIZE the loop reads
\* past FunctionsHash, as do the three loops of the boilerplate after it.
EmitTypedefs ==
  /\ pc = "typedefs"
  /\ UNCHANGED Inserted
  /\ \/ /\ FunctionCount > TOKEN_HASH_SIZE
        /\ pc' = "crashed"
        /\ UNCHANGED <<outFile, FunctionsBeyond>>
     \/ \E beyond \in IF FunctionCount > TOKEN_HASH_SIZE THEN Garbage(ArbHash)
                      ELSE {ZeroHash} :
          /\ FunctionsBeyond' = beyond
          /\ Write(TypedefLines(ArbData, ArbHash,
                                Visited(FunctionsHash, FunctionCount, beyond)))
          /\ pc' = IF Settings.Boilerplate THEN "boilerplate" ELSE "complete"
  /\ UNCHANGED <<rerun, first, now, Settings, Result, ArbData, Output, Success,
                 Tokenizer, tables, Index, Data, Warnings>>

\* Lines 979-1134.
EmitBoilerplate ==
  /\ pc = "boilerplate"
  /\ UNCHANGED Inserted
  /\ Write(Boilerplate(ArbData, ArbHash,
                       Visited(FunctionsHash, FunctionCount, FunctionsBeyond),
                       Settings.Prefix))
  /\ pc' = "complete"
  /\ UNCHANGED <<rerun, first, now, Settings, Result, run>>

\* A variant of the step below that leaves Success as it was.
CompleteFailing ==
  /\ pc = "complete"
  /\ UNCHANGED Inserted
  /\ pc' = "close"
  /\ UNCHANGED <<rerun, first, now, outFile, Settings, Result, run>>

\* Line 1135.
Complete ==
  /\ pc = "complete"
  /\ UNCHANGED Inserted
  /\ Success' = 0
  /\ pc' = "close"
  /\ UNCHANGED <<rerun, first, now, outFile, Settings, Result, ArbData, Output,
                 Tokenizer, tables, Index, Data, FunctionsBeyond, Warnings>>

\* Lines 1144-1154 and the return into main (line 105).  fclose and free leave
\* the pointers Output and ArbData as they are.
CloseFiles ==
  /\ pc = "close"
  /\ UNCHANGED Inserted
  /\ Result' = Success
  /\ pc' = "exited"
  /\ UNCHANGED <<rerun, first, now, outFile, Settings, run>>

Next ==
  \/ Main
  \/ MainAgain
  \/ OpenFiles
  \/ ParseRegistry
  \/ SeedTokens
  \/ OpenInput
  \/ ScanToken
  \/ CloseInput
  \/ SortTokens
  \/ EmitPreamble
  \/ EmitDefines
  \/ EmitTypedefs
  \/ EmitBoilerplate
  \/ Complete
  \/ CloseFiles

Spec == Init /\ [][Next]_vars

(***************************************************************************)
(* The token tables on their own                                           *)
(***************************************************************************)
\* The hashes handed to AddToken: two whose probe starts on the last slot (the
\* second one wraps to slot 0), one whose low bits are all zero, and one in
\* the middle of the table.
TestHashes ==
  { <<0, TOKEN_HASH_SIZE - 1>>, <<0, 2 * TOKEN_HASH_SIZE - 1>>, <<1, 0>>, <<0, 3>> }

\* A hash that is never inserted and whose probe starts on the last slot.
AbsentHash == <<0, 3 * TOKEN_HASH_SIZE - 1>>

\* GLArbToken Token = {}; Token.Hash = Hash
ArbTokenOf(Hash) == [EmptyArbToken EXCEPT !.Hash = Hash]

\* Two zeroed tables (calloc) and no insert yet.
TableInit ==
  /\ pc = "table"
  /\ rerun = FALSE
  /\ first = NoRun
  /\ now = 1
  /\ outFile = [exists |-> FALSE, mtime |-> 0, content |-> << >>]
  /\ Settings = NoSettings
  /\ Result = 0
  /\ ArbData = NullBuffer
  /\ Output = FALSE
  /\ Success = 0 - 1
  /\ Tokenizer = 0
  /\ ArbHash = EmptyArbHash
  /\ ArbTokenCount = 0
  /\ FunctionsHash = EmptyTokenHash
  /\ FunctionCount = 0
  /\ DefinesHash = EmptyTokenHash
  /\ DefinesCount = 0
  /\ Index = 0
  /\ Data = NullBuffer
  /\ FunctionsBeyond = ZeroHash
  /\ Warnings = << >>
  /\ Inserted = << >>

\* One call of each AddToken overload with the same non-zero hash, while fewer
\* than TOKEN_HASH_SIZE calls have been made.
InsertToken ==
  /\ pc = "table"
  /\ Len(Inserted) < TOKEN_HASH_SIZE
  /\ \E Hash \in TestHashes :
       /\ FunctionsHash' = AddToken(FunctionsHash, Hash)
       /\ ArbHash' = AddArbToken(ArbHash, ArbTokenOf(Hash)).Table
       /\ Inserted' = Append(Inserted, Hash)
  /\ UNCHANGED <<pc, rerun, first, now, outFile, Settings, Result, ArbData, Output,
                 Success, Tokenizer, ArbTokenCount, FunctionCount, DefinesHash,
                 DefinesCount, Index, Data, FunctionsBeyond, Warnings>>

TableSpec == TableInit /\ [][InsertToken]_vars

(***************************************************************************)
(* Properties                                                              *)
(*                                                                         *)
(* A generation run is a call of GenerateOpenGLHeader; it has returned     *)
(* when pc = "exited".  The second invocation (rerun) is compared with the *)
(* first through the record first.                                         *)
(***************************************************************************)
Range(seq) == {seq[i] : i \in 1..Len(seq)}

Returned == pc = "exited"

Succeeded == pc = "exited" /\ Success = 0

FirstSucceeded == rerun /\ first.pc = "exited" /\ first.Result = 0

SameRegistryAndIgnores ==
  /\ Settings.Headers = first.Settings.Headers
  /\ Settings.Ignores = first.Settings.Ignores
  /\ Settings.Prefix = first.Settings.Prefix

\* The items of the given kinds, in file order.
ItemsOfKind(content, kinds) == SelectSeq(content, LAMBDA it : it.kind \in kinds)

\* The registry symbols the lines of the given kinds were written for.
SymbolsOfKind(content, kinds) == {it.sym : it \in Range(ItemsOfKind(content, kinds))}

\* The file without the guard block, which holds the timestamp.
WithoutGuard(content) == SelectSeq(content, LAMBDA it : it.kind # "guard")

NameGlClear ==
  <<"g", "l", "C", "l", "e", "a", "r" >>

NameGlFoo ==
  <<"g", "l", "F", "o", "o" >>

NameGlXSwap ==
  <<"g", "l", "X", "S", "w", "a", "p" >>

\* The return type of clear.h as the parser records it: from the end of GLAPI on.
TextVoid ==
  <<" ", "v", "o", "i", "d" >>

\* The parameters of clear.h as the parser records them: from the end of the name on.
TextMaskParameters ==
  <<" ", "(", "G", "L", "e", "n", "u", "m", " ", "m", "a", "s", "k", ")", ";" >>

\* The typedef line written for glClear of clear.h.
LineTypedefGlClear ==
  <<"t", "y", "p", "e", "d", "e", "f", " ", " ", "v", "o", "i", "d", " ", "(", "A", "P",
    "I", "E", "N", "T", "R", "Y", "P", " ", "P", "F", "N", "G", "L", "C", "L", "E", "A",
    "R", "P", "R", "O", "C", ")", " ", " ", "(", "G", "L", "e", "n", "u", "m", " ", "m",
    "a", "s", "k", ")", ";", "\n" >>

(***************************************************************************)
(* C1                                                                      *)
(***************************************************************************)
\* C1 (as claimed): two generation runs on the same registry files, source
\* files, ignore list, prefix and flags, the second forced over the file the
\* first left, write the same output file.
C1_Determinism ==
  (Succeeded /\ FirstSucceeded /\ SameRegistryAndIgnores
     /\ Settings.Inputs = first.Settings.Inputs
     /\ Settings.Boilerplate = first.Settings.Boilerplate)
  => outFile.content = first.content

(***************************************************************************)
(* C2                                                                      *)
(***************************************************************************)
\* C2 (as claimed): with the registry line "GLAPI void glClear (GLenum mask);"
\* (noconv.h) and the source clear.c, the registry table holds a function named
\* glClear, the scan does not warn about glClear, and a typedef line is written
\* for glClear.
C2_RoundTrip ==
  (Succeeded /\ Settings.Headers = <<"noconv.h">> /\ Settings.Inputs = <<"clear.c">>)
  => /\ \E i \in Slots : Text(ArbData, ArbHash[i].FunctionName) = NameGlClear
     /\ NameGlClear \notin Range(Warnings)
     /\ NameGlClear \in SymbolsOfKind(outFile.content, {"typedef"})

\* C2 (amended): with the registry line "GLAPI void APIENTRY glClear (GLenum
\* mask);" (clear.h), which has the calling-convention token between return
\* type and name, and the source clear.c, the registry table holds glClear
\* with return type " void" and parameters " (GLenum mask);", the scan does not
\* warn about glClear, and the typedef lines written are exactly
\* "typedef  void (APIENTRYP PFNGLCLEARPROC)  (GLenum mask);".
C2_RoundTripWithCallingConvention ==
  (Succeeded /\ Settings.Headers = <<"clear.h">> /\ Settings.Inputs = <<"clear.c">>)
  => /\ \E i \in Slots :
          /\ ArbHash[i].Hash = GetStringHash(NameGlClear)
          /\ Text(ArbData, ArbHash[i].FunctionName) = NameGlClear
          /\ Text(ArbData, ArbHash[i].ReturnType) = TextVoid
          /\ Text(ArbData, ArbHash[i].Parameters) = TextMaskParameters
     /\ NameGlClear \notin Range(Warnings)
     /\ ItemsOfKind(outFile.content, {"typedef"})
          = <<Item("typedef", LineTypedefGlClear, 0, NameGlClear)>>

\* A run of the amended round trip that has written the typedef line.
C2_RoundTripRun ==
  /\ Succeeded
  /\ Settings.Headers = <<"clear.h">>
  /\ Settings.Inputs = <<"clear.c">>
  /\ \E it \in Range(outFile.content) : it.kind = "typedef" /\ it.text = LineTypedefGlClear

(***************************************************************************)
(* C3                                                                      *)
(***************************************************************************)
SeedMacros == {StrMajor, StrMinor}

SeedFunctions == {StrGetIntegerv}

\* Whether the registry table holds an entry for the name.
InRegistryTable(Name) == GetToken(ArbHash, GetStringHash(Name)) # NoSlot

\* Whether the emission loop over a result set visits the hash of the name.
VisitedIn(TokenHash, Count, Name) ==
  \E i \in Slots : i < Count /\ TokenHash[i] = GetStringHash(Name)

\* C3 (as claimed): every successful generation run writes the macro lines of
\* GL_MAJOR_VERSION and GL_MINOR_VERSION and the typedef of glGetIntegerv,
\* whatever the registry and the source files hold.
C3_SeedsAlwaysWritten ==
  Succeeded
  => /\ SeedMacros \subseteq SymbolsOfKind(outFile.content, {"macro"})
     /\ SeedFunctions \subseteq SymbolsOfKind(outFile.content, {"typedef"})

\* C3 (amended): in every successful generation run the three seeded symbols
\* are among the entries of their result sets that the emission visits, and the
\* macro line or typedef of a seeded symbol is written exactly when the
\* registry table holds an entry for it.
C3_SeedsWrittenWhenInRegistry ==
  Succeeded
  => /\ \A Name \in SeedMacros :
          /\ VisitedIn(DefinesHash, DefinesCount, Name)
          /\ Name \in SymbolsOfKind(outFile.content, {"macro"}) <=> InRegistryTable(Name)
     /\ \A Name \in SeedFunctions :
          /\ VisitedIn(FunctionsHash, FunctionCount, Name)
          /\ Name \in SymbolsOfKind(outFile.content, {"typedef"}) <=> InRegistryTable(Name)

\* A successful run over foo.c, which names no seeded symbol, that has written
\* all three.
C3_SeedsWrittenRun ==
  /\ Succeeded
  /\ Settings.Inputs = <<"foo.c">>
  /\ SeedMacros \subseteq SymbolsOfKind(outFile.content, {"macro"})
  /\ SeedFunctions \subseteq SymbolsOfKind(outFile.content, {"typedef"})

(***************************************************************************)
(* C4                                                                      *)
(***************************************************************************)
\* The tokens of a source file, in order, as ParseToken delivers them.
RECURSIVE TokenTexts(_, _)
TokenTexts(Buffer, At) ==
  IF CharAt(Buffer, At) = NUL THEN << >>
  ELSE <<Text(Buffer, ParseToken(Buffer, At).Value)>>
         \o TokenTexts(Buffer, ParseToken(Buffer, At).At)

\* A candidate token: gl followed by an upper-case letter, or GL_.
IsCandidateText(t) ==
  /\ Len(t) >= 3
  /\ \/ t[1] = "g" /\ t[2] = "l" /\ IsUpperCase(t[3])
     \/ t[1] = "G" /\ t[2] = "L" /\ t[3] = "_"

\* The candidate tokens of the input files of the run.
Referenced ==
  UNION { {t \in Range(TokenTexts(ReadEntireFile(Settings.Inputs[i]), 1)) : IsCandidateText(t)}
          : i \in 1..Len(Settings.Inputs) }

\* The names of the entries of the registry table.
RegistryNames ==
  {Text(ArbData, ArbHash[i].Value) : i \in {j \in Slots : ArbHash[j].Hash # ZeroHash}}

\* Each line of the block was written for another symbol.
OncePerBlock(content, kind) ==
  Cardinality(SymbolsOfKind(content, {kind})) = Len(ItemsOfKind(content, {kind}))

\* C4 (as claimed): when the registry declares the three seeded symbols, the
\* symbols written (macro lines and typedefs) are exactly the seeded symbols
\* and the registry symbols that occur as candidate tokens in an input file,
\* each once per block.
C4_Minimality ==
  (Succeeded /\ (SeedMacros \cup SeedFunctions) \subseteq RegistryNames)
  => /\ SymbolsOfKind(outFile.content, {"macro", "typedef"})
          = SeedMacros \cup SeedFunctions \cup (RegistryNames \cap Referenced)
     /\ OncePerBlock(outFile.content, "macro")
     /\ OncePerBlock(outFile.content, "typedef")

\* C4 holds of the runs in which no insert has met a full table.
MinimalityWithinCapacity == ~Exhausted => C4_Minimality

(***************************************************************************)
(* C5                                                                      *)
(***************************************************************************)
\* The number of warnings that name t.
WarningsNaming(t) == Len(SelectSeq(Warnings, LAMBDA w : w = t))

AllKinds == {"macro", "typedef", "redefine", "global", "load"}

\* C5 (as claimed): a candidate of the input files that is neither a registry
\* symbol nor an ignore-list entry is warned about exactly once in the run and
\* no line is written for it.
C5_ExactlyOneWarning ==
  Succeeded
  => \A t \in Referenced :
       (t \notin RegistryNames /\ t \notin Range(Settings.Ignores))
       => /\ WarningsNaming(t) = 1
          /\ t \notin SymbolsOfKind(outFile.content, AllKinds)

\* Whether the comparison of IsKnownOrIgnoredToken accepts t for an entry of
\* the ignore list: t is a leading part of the entry.
AcceptedByIgnores(t) ==
  \E e \in Range(Settings.Ignores) : Len(t) <= Len(e) /\ SubSeq(e, 1, Len(t)) = t

\* The number of occurrences of t as a token in the input files of the run, a
\* file named twice on the command line counted twice.
RECURSIVE OccurrencesFrom(_, _, _)
OccurrencesFrom(Inputs, i, t) ==
  IF i > Len(Inputs) THEN 0
  ELSE Len(SelectSeq(TokenTexts(ReadEntireFile(Inputs[i]), 1), LAMBDA u : u = t))
         + OccurrencesFrom(Inputs, i + 1, t)

\* C5 (amended): in a successful generation run, a candidate that the registry
\* table does not hold and the ignore list does not accept is named by as many
\* warnings as it has occurrences in the input files, one per occurrence; and
\* no line is written for a name warned about.
C5_OneWarningPerOccurrence ==
  Succeeded
  => /\ \A t \in Referenced :
          (~InRegistryTable(t) /\ ~AcceptedByIgnores(t))
          => WarningsNaming(t) = OccurrencesFrom(Settings.Inputs, 1, t)
     /\ Range(Warnings) \cap SymbolsOfKind(outFile.content, AllKinds) = {}

\* A successful run over foo.c, where glFoo occurs twice, with two warnings
\* naming glFoo.
C5_TwoWarningsRun ==
  /\ Succeeded
  /\ Settings.Inputs = <<"foo.c">>
  /\ WarningsNaming(NameGlFoo) = 2

(***************************************************************************)
(* C6                                                                      *)
(***************************************************************************)
\* C6: an entry of the ignore list that is no registry symbol is not warned
\* about, and no macro line, typedef, redefinition macro, global variable or
\* loader assignment is written for it, wherever it occurs in the input files.
C6_IgnoreListExemption ==
  \A e \in Range(Settings.Ignores) :
    e \notin RegistryNames
    => /\ e \notin Range(Warnings)
       /\ e \notin SymbolsOfKind(outFile.content, AllKinds)

\* A successful run over foo.c with glXSwap on the ignore list: glXSwap was a
\* candidate, was taken into the result set, and no warning names it.
C6_IgnoredCandidateRun ==
  /\ Succeeded
  /\ Settings.Inputs = <<"foo.c">>
  /\ NameGlXSwap \in Range(Settings.Ignores)
  /\ NameGlXSwap \in Referenced
  /\ VisitedIn(FunctionsHash, FunctionCount, NameGlXSwap)
  /\ Warnings # << >>
  /\ NameGlXSwap \notin Range(Warnings)

(***************************************************************************)
(* C7                                                                      *)
(***************************************************************************)
\* The lines of the block are in strictly descending order of the hash of the
\* symbol they were written for.
DescendingBlock(content, kind) ==
  \A i \in 1..(Len(ItemsOfKind(content, {kind})) - 1) :
    HashGreater(GetStringHash(ItemsOfKind(content, {kind})[i].sym),
                GetStringHash(ItemsOfKind(content, {kind})[i + 1].sym))

\* C7 (as claimed): for the same registry, ignore list and flags, a run over
\* the input files in the opposite order writes the same file (the guard block
\* with its timestamp left aside), and the lines of each block descend by hash.
C7_InputOrderIndependence ==
  /\ Succeeded
     => DescendingBlock(outFile.content, "macro") /\ DescendingBlock(outFile.content, "typedef")
  /\ (Succeeded /\ FirstSucceeded /\ SameRegistryAndIgnores
        /\ Settings.Boilerplate = first.Settings.Boilerplate
        /\ Settings.Inputs = Reverse(first.Settings.Inputs))
     => WithoutGuard(outFile.content) = WithoutGuard(first.content)

\* C7 holds of the pairs of runs in which no insert has met a full table.
InputOrderIndependenceWithinCapacity ==
  (~Exhausted /\ ~first.Exhausted) => C7_InputOrderIndependence

(***************************************************************************)
(* C8                                                                      *)
(***************************************************************************)
\* C8: a generation run that returns returns 0 exactly when the output file
\* was opened and the registry read produced a buffer, else -1; when it
\* returns 0 every input file has been gone through, readable or not; a run
\* over missing.c and clear.c, with the registry missing.h and clear.h,
\* returns 0 with the typedef of glClear written.
C8_ExitStatus ==
  Returned
  => /\ Result = 0 <=> (Output /\ ArbData # NullBuffer)
     /\ Result \in {0, 0 - 1}
     /\ Result = 0 => Index = Len(Settings.Inputs)
     /\ (Output /\ Settings.Headers = <<"missing.h", "clear.h">>
           /\ Settings.Inputs = <<"missing.c", "clear.c">>)
        => /\ Result = 0
           /\ NameGlClear \in SymbolsOfKind(outFile.content, {"typedef"})

\* A run that returned 0 although one registry file and one input file are
\* missing, and that has written the typedef of glClear.
C8_MissingFilesRun ==
  /\ Returned
  /\ Result = 0
  /\ Settings.Headers = <<"missing.h", "clear.h">>
  /\ Settings.Inputs = <<"missing.c", "clear.c">>
  /\ NameGlClear \in SymbolsOfKind(outFile.content, {"typedef"})

(***************************************************************************)
(* C9                                                                      *)
(***************************************************************************)
\* C9 (as claimed): with boilerplate disabled the file holds only the guard,
\* the baseline typedefs, macro lines, the spacer, the debug-callback typedef
\* and function-pointer typedefs; and its macro and typedef blocks are those of
\* the run with boilerplate enabled on the same inputs.
C9_BoilerplateToggle ==
  /\ (Succeeded /\ ~Settings.Boilerplate)
     => \A it \in Range(outFile.content) :
          it.kind \in {"guard", "baseline", "macro", "spacer", "debugproc", "typedef"}
  /\ (Succeeded /\ FirstSucceeded /\ SameRegistryAndIgnores
        /\ Settings.Inputs = first.Settings.Inputs
        /\ Settings.Boilerplate # first.Settings.Boilerplate)
     => ItemsOfKind(outFile.content, {"macro", "typedef"})
          = ItemsOfKind(first.content, {"macro", "typedef"})

\* C9 holds of the pairs of runs in which no insert has met a full table.
BoilerplateToggleWithinCapacity ==
  (~Exhausted /\ ~first.Exhausted) => C9_BoilerplateToggle

(***************************************************************************)
(* C10                                                                     *)
(***************************************************************************)
\* C10 (as claimed): after an insert has met a full table the run goes on: the
\* process is neither killed nor aborted by the assertion.
C10_GracefulExhaustion == Exhausted => pc \notin {"crashed", "aborted"}

\* The input files of the run hold a candidate with hash 0 that the ignore
\* list accepts: it is counted, and the slot it is stored in stays empty.
ZeroHashAccepted ==
  \E t \in Referenced : GetStringHash(t) = ZeroHash /\ AcceptedByIgnores(t)

\* The process is killed or aborted only after an insert has met a full table
\* or a candidate with hash 0 was accepted.
StoppedOnlyWhenExhausted ==
  pc \in {"crashed", "aborted"} => (Exhausted \/ ZeroHashAccepted)

(***************************************************************************)
(* C11                                                                     *)
(***************************************************************************)
NameGlX ==
  <<"g", "l", "X" >>

NameGlXSwapBuffers ==
  <<"g", "l", "X", "S", "w", "a", "p", "B", "u", "f", "f", "e", "r", "s" >>

\* t is a proper leading part of an entry of the ignore list.
ProperPrefixOfIgnored(t) ==
  \E e \in Range(Settings.Ignores) : Len(t) < Len(e) /\ SubSeq(e, 1, Len(t)) = t

\* C11 (as claimed): a candidate of the input files is accepted (not warned
\* about) exactly when the registry table holds its hash or its text is
\* identical to an entry of the ignore list; a candidate that is only a proper
\* leading part of an entry, or that goes on after an entry, is warned about.
C11_AcceptanceRule ==
  Succeeded
  => \A t \in Referenced :
       (InRegistryTable(t) \/ t \in Range(Settings.Ignores)) <=> t \notin Range(Warnings)

\* What the comparison of Equal does instead: a candidate is accepted exactly
\* when the registry table holds its hash or it is a leading part, proper or
\* not, of an entry of the ignore list.
AcceptanceByLeadingPart ==
  Succeeded
  => \A t \in Referenced :
       (InRegistryTable(t) \/ AcceptedByIgnores(t)) <=> t \notin Range(Warnings)

\* A run over edge.c with the ignore list: glX, a proper leading part of
\* glXSwap, was accepted without a warning; glXSwapBuffers was warned about.
ProperPrefixAcceptedRun ==
  /\ Succeeded
  /\ Settings.Inputs = <<"edge.c">>
  /\ ProperPrefixOfIgnored(NameGlX)
  /\ ~InRegistryTable(NameGlX)
  /\ NameGlX \notin Range(Warnings)
  /\ VisitedIn(FunctionsHash, FunctionCount, NameGlX)
  /\ NameGlXSwapBuffers \in Range(Warnings)

(***************************************************************************)
(* C12                                                                     *)
(***************************************************************************)
\* The hashes stored in a result set.
StoredIn(TokenHash) == {TokenHash[i] : i \in Slots} \ {ZeroHash}

\* The hashes of the names in a set.
HashesOf(Names) == {GetStringHash(t) : t \in Names}

\* C12 (as claimed): only a token that begins with GL_, or with gl and an
\* upper-case third character of its own, is looked up: every name warned
\* about and every hash recorded is that of such a token of the input files
\* (or of a seed), a shorter token such as G, GL or g never; and the scan
\* never reads Chars[2] of a token past the terminator of the buffer.
C12_CandidateClassification ==
  /\ \A w \in Range(Warnings) : IsCandidateText(w)
  /\ pc \in {"scan", "inputs"}
     => /\ StoredIn(FunctionsHash) \subseteq HashesOf(SeedFunctions \cup Referenced)
        /\ StoredIn(DefinesHash) \subseteq HashesOf(SeedMacros \cup Referenced)
  /\ (pc = "scan" /\ CharAt(Data, Tokenizer) # NUL)
     => ~(/\ StartsWith(Data, ParseToken(Data, Tokenizer).Value, StrGl)
          /\ ThirdCharOutOfBounds(Data, ParseToken(Data, Tokenizer)))

(***************************************************************************)
(* C13                                                                     *)
(***************************************************************************)
\* The declarations of a registry buffer in order, as the parser reads them
\* into an empty table: the entry each would make.
RECURSIVE DeclarationsFrom(_, _)
DeclarationsNext(Buffer, it) ==
  (IF it.Adds THEN <<it.Filled>> ELSE << >>) \o DeclarationsFrom(Buffer, it.At)

DeclarationsFrom(Buffer, At) ==
  IF CharAt(Buffer, At) = NUL THEN << >>
  ELSE DeclarationsNext(Buffer, ArbIteration(Buffer, At, EmptyArbHash))

\* The declarations of the registry buffer of the run.
Declarations == DeclarationsFrom(ArbData, 1)

\* The declarations of the hash, in order.  The table tells names apart by
\* their hashes.
DeclarationsOf(Decls, Hash) == SelectSeq(Decls, LAMBDA d : d.Hash = Hash)

\* The populated slots of the registry table.
Populated == {i \in Slots : ArbHash[i].Hash # ZeroHash}

\* The registry loop has just met the terminator, or the run it was part of
\* has returned success: the table is as the loop left it.
RegistryParsed == pc = "seed" \/ Succeeded

\* Declaration k is the earliest of a name declared more than once.
EarliestOfSeveral(Decls, k) ==
  /\ \A j \in 1..(k - 1) : Decls[j].Hash # Decls[k].Hash
  /\ \E j \in (k + 1)..Len(Decls) : Decls[j].Hash = Decls[k].Hash

\* The table holds one entry for each name declared more than once, and it is
\* the entry its earliest declaration makes.
FirstOccurrenceWinsIn(Decls, Table) ==
  \A k \in 1..Len(Decls) :
    EarliestOfSeveral(Decls, k)
    => /\ Cardinality({i \in Slots : Table[i].Hash = Decls[k].Hash}) = 1
       /\ \E i \in Slots : Table[i] = Decls[k]

\* C13: once the registry loop has ended, a name declared more than once has
\* exactly one entry in the registry table, and its line, return type, name
\* and parameters are those of its earliest declaration in the concatenated
\* text; the later declarations have left no trace.
C13_FirstOccurrenceWins == RegistryParsed => FirstOccurrenceWinsIn(Declarations, ArbHash)

\* The entry of the name is that of the first of its two declarations.
HoldsFirstOfTwo(Decls, Name) ==
  /\ Len(Decls) = 2
  /\ Decls[1].Parameters # Decls[2].Parameters
  /\ \E i \in Populated : ArbHash[i] = Decls[1] /\ Text(ArbData, ArbHash[i].Value) = Name

\* A run over bare.h, clear.h and glext.h: glClear is declared twice (as is
\* GL_ZERO), the table holds three entries, and that of glClear is the one
\* made by clear.h, which comes before glext.h.
C13_DuplicateDeclarationRun ==
  /\ Succeeded
  /\ Settings.Headers = <<"bare.h", "clear.h", "glext.h">>
  /\ Cardinality(Populated) = 3
  /\ HoldsFirstOfTwo(DeclarationsOf(Declarations, GetStringHash(NameGlClear)), NameGlClear)

(***************************************************************************)
(* C14                                                                     *)
(***************************************************************************)
\* The hashes looked up: the inserted ones, one never inserted, and zero.
Queries == TestHashes \cup {AbsentHash, ZeroHash}

\* The Hash column of a GLArbToken table.
HashColumn(TokenHash) == [i \in Slots |-> TokenHash[i].Hash]

\* The first empty slot of the linear probe sequence that starts at Start,
\* said without the loop: the slot at the least distance that is empty.
FirstEmptySlot(Hashes, Start) ==
  LET Empty(d) == Hashes[(Start + d) % TOKEN_HASH_SIZE] = ZeroHash
      d == CHOOSE d \in Slots : Empty(d) /\ \A e \in 0..(d - 1) : ~Empty(e)
  IN  (Start + d) % TOKEN_HASH_SIZE

\* Contains and GetToken find exactly the hashes inserted so far, GetToken
\* yields a slot that holds the hash, and their loops end within
\* TOKEN_HASH_SIZE passes.
LookupCorrect ==
  \A Hash \in Queries :
    /\ Contains(FunctionsHash, Hash) <=> Hash \in Range(Inserted)
    /\ GetToken(ArbHash, Hash) # NoSlot <=> Hash \in Range(Inserted)
    /\ GetToken(ArbHash, Hash) # NoSlot => ArbHash[GetToken(ArbHash, Hash)].Hash = Hash
    /\ ProbeHashSteps(FunctionsHash, Hash, HashIndex(Hash), 0) <= TOKEN_HASH_SIZE
    /\ ProbeHashSteps(HashColumn(ArbHash), Hash, HashIndex(Hash), 0) <= TOKEN_HASH_SIZE

\* The insert of Hash into a table with the Hash column Before found an empty
\* slot before its loop gave up, and the column After differs from Before in
\* the first empty slot of the probe sequence only, which holds Hash.
WroteFirstEmpty(Before, After, Hash) ==
  /\ \E i \in Slots : Before[i] = ZeroHash
  /\ ProbeEmpty(Before, HashIndex(Hash), 0).Iterations < TOKEN_HASH_SIZE
  /\ After = [Before EXCEPT ![FirstEmptySlot(Before, HashIndex(Hash))] = Hash]

\* A step of the tables inserts the last hash of the history into both.
InsertWritesFirstEmpty ==
  /\ Len(Inserted') = Len(Inserted) + 1
  /\ WroteFirstEmpty(FunctionsHash, FunctionsHash', Inserted'[Len(Inserted')])
  /\ WroteFirstEmpty(HashColumn(ArbHash), HashColumn(ArbHash'), Inserted'[Len(Inserted')])
  /\ \A i \in Slots : ArbHash'[i] # ArbHash[i] => ArbHash'[i] = ArbTokenOf(ArbHash'[i].Hash)

\* C14: after any sequence of at most TOKEN_HASH_SIZE inserts of non-zero
\* hashes into an empty table, Contains and GetToken of a hash report it
\* present exactly when it was inserted earlier; each insert wrote only the
\* first empty slot of the linear probe sequence that starts at the low bits of
\* its hash and left every other slot as it was; every probe loop ended within
\* TOKEN_HASH_SIZE passes.
C14_LookupCorrectness ==
  /\ [](pc = "table" => LookupCorrect)
  /\ [][pc = "table" => InsertWritesFirstEmpty]_vars

\* TOKEN_HASH_SIZE inserts have filled both tables, an entry whose probe began
\* on the last slot sits in a lower slot (the probe wrapped), the same hash
\* sits in two slots, and the lookup of the hash never inserted has gone
\* through the whole table.
C14_FullTableRun ==
  /\ pc = "table"
  /\ Len(Inserted) = TOKEN_HASH_SIZE
  /\ \A i \in Slots : FunctionsHash[i] # ZeroHash /\ ArbHash[i].Hash # ZeroHash
  /\ \E i \in Slots : HashIndex(FunctionsHash[i]) > i
  /\ \E i, j \in Slots : i # j /\ FunctionsHash[i] = FunctionsHash[j]
  /\ ~Contains(FunctionsHash, AbsentHash)
  /\ ProbeHashSteps(FunctionsHash, AbsentHash, HashIndex(AbsentHash), 0) = TOKEN_HASH_SIZE

(***************************************************************************)
(* C15                                                                     *)
(***************************************************************************)
\* The contents of the registry files of the run that open and are not
\* empty, in command-line order.
ReadableContents ==
  [i \in 1..Len(SelectSeq(Settings.Headers, LAMBDA n : ReadEntireFile(n) # NullBuffer)) |->
     ReadEntireFile(SelectSeq(Settings.Headers, LAMBDA n : ReadEntireFile(n) # NullBuffer)[i])]

StartsWithSeq(Buffer, Part) ==
  Len(Buffer) >= Len(Part) /\ SubSeq(Buffer, 1, Len(Part)) = Part

Drop(Buffer, n) == SubSeq(Buffer, n + 1, Len(Buffer))

\* Buffer is the contents in order, each whole, with one or two newlines
\* between adjacent ones.
RECURSIVE IsConcatenation(_, _)
IsConcatenation(Buffer, Contents) ==
  IF Len(Contents) = 1 THEN Buffer = Contents[1]
  ELSE /\ StartsWithSeq(Buffer, Contents[1])
       /\ \E Separator \in {<<"\n">>, <<"\n", "\n">>} :
            /\ StartsWithSeq(Drop(Buffer, Len(Contents[1])), Separator)
            /\ IsConcatenation(Drop(Buffer, Len(Contents[1]) + Len(Separator)),
                               Tail(Contents))

\* C15 (as claimed): with two or more registry files readable and not empty,
\* the registry buffer holds every character of each file, unaltered and in
\* command-line order, adjacent files separated by a blank line, the last
\* character of a file that does not end in a newline included.
C15_RegistryConcatenation ==
  (ArbData # NullBuffer /\ Len(ReadableContents) >= 2)
  => IsConcatenation(ArbData, ReadableContents)

\* C15 holds when every registry file but the last ends in a newline: the
\* newline is the character that is overwritten.
ConcatenationOfTerminatedFiles ==
  (/\ ArbData # NullBuffer
   /\ Len(ReadableContents) >= 2
   /\ \A i \in 1..(Len(ReadableContents) - 1) :
        ReadableContents[i][Len(ReadableContents[i])] = "\n")
  => IsConcatenation(ArbData, ReadableContents)

(***************************************************************************)
(* C16                                                                     *)
(***************************************************************************)
\* The count is the number of populated slots of the result set, and no two
\* populated slots hold the same hash.
CountsPopulated(TokenHash, Count) ==
  /\ Count = Cardinality({i \in Slots : TokenHash[i] # ZeroHash})
  /\ \A i, j \in Slots :
       (i # j /\ TokenHash[i] # ZeroHash) => TokenHash[i] # TokenHash[j]

\* The loop over the indices below Count visits exactly the populated slots.
VisitsPopulated(TokenHash, Count) ==
  \A i \in Slots : i < Count <=> TokenHash[i] # ZeroHash

\* C16 (as claimed): from the seeding to the end of the emission each count
\* is the number of populated slots of its result set, no hash is stored twice,
\* after the sort the emission loops visit exactly the populated entries, and
\* the assertion on the hash of a visited macro entry never fails.
C16_CountInvariant ==
  /\ pc \in {"inputs", "scan", "preamble", "defines", "typedefs", "boilerplate", "complete"}
     => /\ CountsPopulated(FunctionsHash, FunctionCount)
        /\ CountsPopulated(DefinesHash, DefinesCount)
  /\ pc \in {"preamble", "defines", "typedefs", "boilerplate", "complete"}
     => /\ VisitsPopulated(FunctionsHash, FunctionCount)
        /\ VisitsPopulated(DefinesHash, DefinesCount)
  /\ pc # "aborted"

\* C16 holds of the runs in which no insert has met a full table and no
\* candidate with hash 0 was accepted.
CountInvariantWithinCapacity ==
  (~Exhausted /\ ~ZeroHashAccepted) => C16_CountInvariant

\* A run over zero.c with the ignore list has stopped on the assertion without
\* any insert having met a full table: GL_wSxdl5, with hash 0, was counted.
ZeroHashAbortedRun ==
  /\ pc = "aborted"
  /\ ~Exhausted
  /\ Settings.Inputs = <<"zero.c">>
  /\ DefinesCount = 3

(***************************************************************************)
(* C17                                                                     *)
(***************************************************************************)
\* The file begins with the block that opens the include guard and ends with
\* the block that holds its closing #endif (the tail of the initialization
\* function is the only text of the program with that #endif).
GuardBalanced(content) ==
  /\ Len(content) >= 2
  /\ content[1].kind = "guard"
  /\ content[Len(content)].kind = "init_close"

\* C17 (as claimed): the header of every successful generation run, with
\* boilerplate or without, ends with the #endif that closes the guard opened
\* in its first lines.
C17_IncludeGuardBalance == Succeeded => GuardBalanced(outFile.content)

\* C17 holds of the runs with boilerplate.
GuardBalancedWithBoilerplate ==
  (Succeeded /\ Settings.Boilerplate) => GuardBalanced(outFile.content)

\* Without boilerplate no successful run writes the closing #endif.
GuardOpenWithoutBoilerplate ==
  (Succeeded /\ ~Settings.Boilerplate)
  => \A i \in 1..Len(outFile.content) : outFile.content[i].kind # "init_close"

=============================================================================
